---- MODULE Spec2Model ----
(***************************************************************************)
(* Model of src/src/App.tsx: the App component's state, the capture /     *)
(* FileReader / processImage / generateQRCode / resetApp handlers, and    *)
(* the credential regexes of processImage evaluated character by          *)
(* character.  A JavaScript string is a sequence of one-character         *)
(* strings; null is the record Null; every nullable value is a record.    *)
(***************************************************************************)
EXTENDS Integers, Sequences, FiniteSets, TLC

\* ------------------------------------------------------------- bounds --
\* largest number of lines in a recognized text (parser specification)
MaxLines == 3
\* largest number of files the user submits in one behaviour
MaxCaptures == 2

\* ---------------------------------------------------------- JS values --
Null == [null |-> TRUE]

NL == "\n"

\* the characters of the model's alphabet that the regex class \s accepts
WhiteSpace == {" ", "\t", "\r", NL}

UpperCase == <<"A","B","C","D","E","F","G","H","I","J","K","L","M",
               "N","O","P","Q","R","S","T","U","V","W","X","Y","Z">>
LowerCase == <<"a","b","c","d","e","f","g","h","i","j","k","l","m",
               "n","o","p","q","r","s","t","u","v","w","x","y","z">>

\* canonicalisation of one character under the regex flag i
Canon(c) ==
  IF \E k \in 1..26 : UpperCase[k] = c
    THEN LowerCase[CHOOSE k \in 1..26 : UpperCase[k] = c]
    ELSE c

\* String.prototype.trim
RECURSIVE TrimLeft(_)
TrimLeft(s) ==
  IF s # <<>> /\ Head(s) \in WhiteSpace THEN TrimLeft(Tail(s)) ELSE s

RECURSIVE TrimRight(_)
TrimRight(s) ==
  IF s # <<>> /\ s[Len(s)] \in WhiteSpace
    THEN TrimRight(SubSeq(s, 1, Len(s) - 1))
    ELSE s

Trim(s) == TrimRight(TrimLeft(s))

\* ------------------------------------------------- the label regexes --
\* the literal words of the six patterns /<label>[:\s]+([^\n]+)/i
LabelSSID     == <<"S","S","I","D">>
LabelNetwork  == <<"N","e","t","w","o","r","k">>
LabelWiFi     == <<"W","i","F","i">>
LabelPassword == <<"P","a","s","s","w","o","r","d">>
LabelPass     == <<"P","a","s","s">>
LabelKey      == <<"K","e","y">>

\* the character class [:\s]
InDelimClass(c) == c = ":" \/ c \in WhiteSpace

\* the literal part of the pattern matches at position i, ignoring case
LabelAt(t, label, i) ==
  /\ i + Len(label) - 1 <= Len(t)
  /\ \A k \in 1..Len(label) : Canon(t[i + k - 1]) = Canon(label[k])

\* number of characters the greedy [:\s]+ takes from position p
RECURSIVE DelimRun(_, _)
DelimRun(t, p) ==
  IF p <= Len(t) /\ InDelimClass(t[p]) THEN 1 + DelimRun(t, p + 1) ELSE 0

\* last position the greedy [^\n]+ takes, started at position s
RECURSIVE CaptureEnd(_, _)
CaptureEnd(t, s) ==
  IF s + 1 <= Len(t) /\ t[s + 1] # NL THEN CaptureEnd(t, s + 1) ELSE s

\* backtracking of [:\s]+ : the longest run of d >= 1 delimiter characters
\* after which ([^\n]+) can take at least one character
RECURSIVE Backtrack(_, _, _, _)
Backtrack(t, i, p, d) ==
  IF d < 1 THEN Null
  ELSE IF p + d <= Len(t) /\ t[p + d] # NL
    THEN [index   |-> i,
          whole   |-> SubSeq(t, i, CaptureEnd(t, p + d)),
          capture |-> SubSeq(t, p + d, CaptureEnd(t, p + d))]
    ELSE Backtrack(t, i, p, d - 1)

\* the match of the pattern anchored at position i, or Null
MatchAt(t, label, i) ==
  IF LabelAt(t, label, i)
    THEN Backtrack(t, i, i + Len(label), DelimRun(t, i + Len(label)))
    ELSE Null

\* String.prototype.match with a non-global regex: the leftmost match
RECURSIVE MatchFrom(_, _, _)
MatchFrom(t, label, i) ==
  IF i > Len(t) THEN Null
  ELSE IF MatchAt(t, label, i) # Null THEN MatchAt(t, label, i)
  ELSE MatchFrom(t, label, i + 1)

\* variant of Match: the rightmost match instead of the leftmost
RECURSIVE MatchBack(_, _, _)
MatchBack(t, label, i) ==
  IF i < 1 THEN Null
  ELSE IF MatchAt(t, label, i) # Null THEN MatchAt(t, label, i)
  ELSE MatchBack(t, label, i - 1)

Match_Rightmost(t, label) == MatchBack(t, label, Len(t))

Match(t, label) == MatchFrom(t, label, 1)

\* a || b || c on match results
OrElse(a, b) == IF a # Null THEN a ELSE b


\* variant of ssidMatch: the Network pattern tried before the SSID pattern
ssidMatch_NetworkFirst(t) ==
  OrElse(Match(t, LabelNetwork),
         OrElse(Match(t, LabelSSID), Match(t, LabelWiFi)))

\* lines 44-46: ssidMatch
ssidMatch(t) ==
  OrElse(Match(t, LabelSSID),
         OrElse(Match(t, LabelNetwork), Match(t, LabelWiFi)))

\* lines 48-50: passwordMatch
passwordMatch(t) ==
  OrElse(Match(t, LabelPassword),
         OrElse(Match(t, LabelPass), Match(t, LabelKey)))

\* variant of wifiString: another security type in the template
wifiString_WEP(ssid, password) ==
  <<"W","I","F","I",":","S",":">> \o ssid
    \o <<";","T",":","W","E","P",";","P",":">> \o password
    \o <<";",";">>

\* line 71: the template literal of generateQRCode
wifiString(ssid, password) ==
  <<"W","I","F","I",":","S",":">> \o ssid
    \o <<";","T",":","W","P","A",";","P",":">> \o password
    \o <<";",";">>

\* line 72: QRCode.toDataURL, the image that encodes its argument
toDataURL(s) == [png |-> s]

NotFoundMessage ==
  [msg |-> "Couldn't detect WiFi credentials. Please try another image."]
ProcessingMessage ==
  [msg |-> "Error processing image. Please try again."]

\* ------------------------------------------------- recognized texts --
Str_SSID_Home  == <<"S","S","I","D",":"," ","H","o","m","e","-","5","G">>
Str_Pw_abc     == <<"P","a","s","s","w","o","r","d",":"," ",
                    "a","b","c","1","2","3">>
Str_Network_A  == <<"N","e","t","w","o","r","k",":"," ","A">>
Str_SSID_B     == <<"S","S","I","D",":"," ","B">>
Str_Pw_nothing == <<"P","a","s","s","w","o","r","d",":">>
Str_Key_let    == <<"K","e","y",":"," ","l","e","t","m","e","i","n">>
Str_SSID_blank == <<"S","S","I","D",":"," ">>
Str_wifi_Guest == <<"w","i","f","i",":"," ","G","u","e","s","t">>
Str_pass_x1    == <<"p","a","s","s"," ","x","1">>
Str_hello      == <<"h","e","l","l","o">>

\* the lines a recognized text is made of
Lines ==
  { Str_SSID_Home, Str_Pw_abc, Str_Network_A, Str_SSID_B, Str_Pw_nothing,
    Str_Key_let, Str_SSID_blank, Str_wifi_Guest, Str_pass_x1, Str_hello }

\* the lines of ls separated by newlines
RECURSIVE JoinLines(_)
JoinLines(ls) ==
  IF ls = <<>> THEN <<>>
  ELSE IF Len(ls) = 1 THEN ls[1]
  ELSE ls[1] \o <<NL>> \o JoinLines(Tail(ls))

\* every text of at most MaxLines lines
Texts == { JoinLines(ls) : ls \in UNION { [1..k -> Lines] : k \in 0..MaxLines } }

\* the texts the images of the interleaving specification contain
UiTexts ==
  { JoinLines(<<Str_SSID_Home, Str_Pw_abc>>),
    JoinLines(<<Str_Network_A, Str_Key_let>>),
    Str_hello }

\* ------------------------------------------------------------- state --
VARIABLES
  image,        \* line 13: Null or [data |-> the file read]
  scanning,     \* line 14
  credentials,  \* line 15: Null or [ssid, password]
  qrCodeUrl,    \* line 16: Null or the image QRCode.toDataURL produced
  error,        \* line 17: Null or [msg]
  flows,        \* one record per accepted file: FileReader + processImage
  renders,      \* the QRCode.toDataURL promises not yet settled
  corpus        \* what worker.recognize may return for the submitted images

vars == <<image, scanning, credentials, qrCodeUrl, error, flows, renders, corpus>>

\* the suspension points of processImage, in order
AwaitPoints ==
  <<"createWorker", "load", "loadLanguage", "initialize", "recognize", "terminate">>

AwaitSet == { AwaitPoints[k] : k \in 1..Len(AwaitPoints) }

\* a flow whose file has been handed to the FileReader
NewFlow ==
  [pc |-> "reading", data |-> Null, ssidMatch |-> Null, passwordMatch |-> Null,
   worker |-> "none", err |-> Null]

\* lines 13-17: the useState initial values
InitApp ==
  /\ image = Null
  /\ scanning = FALSE
  /\ credentials = Null
  /\ qrCodeUrl = Null
  /\ error = Null
  /\ flows = <<>>
  /\ renders = {}

Init == InitApp /\ corpus = UiTexts

InitParse == InitApp /\ \E t \in Texts : corpus = {t}

\* ----------------------------------------------------------- actions --
\* the flows that have started and not yet finished
InFlight == { f \in 1..Len(flows) : flows[f].pc # "fulfilled" }

\* lines 19-30: handleCapture, reachable through the two file inputs that
\* are rendered while image is null (line 115); a change event may carry
\* no file.  cap bounds the number of files submitted.
HandleCapture(cap) ==
  /\ image = Null
  /\ \E file \in BOOLEAN :
       /\ error' = Null
       /\ IF file
            THEN /\ Len(flows) < cap
                 /\ flows' = Append(flows, NewFlow)
            ELSE flows' = flows
  /\ UNCHANGED <<image, scanning, credentials, qrCodeUrl, renders, corpus>>

\* lines 24-27 and 33-35: reader.onload sets the image and runs
\* processImage up to its first await
ReaderLoad(f) ==
  /\ flows[f].pc = "reading"
  /\ image' = [data |-> f]
  /\ scanning' = TRUE
  /\ flows' = [flows EXCEPT ![f].pc = "createWorker"]
  /\ UNCHANGED <<credentials, qrCodeUrl, error, renders, corpus>>

\* line 35: createWorker() resolves, the worker exists from here on
CreateWorkerResolved(f) ==
  /\ flows[f].pc = "createWorker"
  /\ flows' = [flows EXCEPT ![f].pc = "load", ![f].worker = "alive"]
  /\ UNCHANGED <<image, scanning, credentials, qrCodeUrl, error, renders, corpus>>

\* lines 36-38: load, loadLanguage, initialize resolve in turn
WorkerStepResolved(f) ==
  /\ flows[f].pc \in {"load", "loadLanguage", "initialize"}
  /\ flows' = [flows EXCEPT ![f].pc =
                 CASE flows[f].pc = "load"         -> "loadLanguage"
                   [] flows[f].pc = "loadLanguage" -> "initialize"
                   [] flows[f].pc = "initialize"   -> "recognize"]
  /\ UNCHANGED <<image, scanning, credentials, qrCodeUrl, error, renders, corpus>>

\* lines 40-41: recognize resolves with { data }, terminate() is called
RecognizeResolved(f) ==
  /\ flows[f].pc = "recognize"
  /\ \E t \in corpus :
       flows' = [flows EXCEPT ![f].pc = "terminate", ![f].data = [text |-> t]]
  /\ UNCHANGED <<image, scanning, credentials, qrCodeUrl, error, renders, corpus>>

\* lines 41-60, 64-66 and 69-72: terminate() resolves; the text is
\* matched, the credentials are stored and generateQRCode runs up to its
\* await, or the not-found message is set; then the finally block
TerminateResolved(f) ==
  /\ flows[f].pc = "terminate"
  /\ LET t  == flows[f].data.text
         sm == ssidMatch(t)
         pm == passwordMatch(t)
     IN  /\ flows' = [flows EXCEPT ![f].pc = "fulfilled",
                                   ![f].worker = "terminated",
                                   ![f].ssidMatch = sm,
                                   ![f].passwordMatch = pm]
         /\ IF sm # Null /\ pm # Null
              THEN LET ssid     == Trim(sm.capture)
                       password == Trim(pm.capture)
                   IN  /\ credentials' = [ssid |-> ssid, password |-> password]
                       /\ renders' = renders \cup
                            { [flow |-> f, wifiString |-> wifiString(ssid, password)] }
                       /\ error' = error
              ELSE /\ error' = NotFoundMessage
                   /\ UNCHANGED <<credentials, renders>>
  /\ scanning' = FALSE
  /\ UNCHANGED <<image, qrCodeUrl, corpus>>

\* variant of AwaitRejected: try/finally without the catch block, the
\* rejection leaves processImage
AwaitRejected_NoCatch(f) ==
  /\ flows[f].pc \in AwaitSet
  /\ flows' = [flows EXCEPT ![f].pc = "rejected",
                            ![f].err = [rejected |-> flows[f].pc]]
  /\ scanning' = FALSE
  /\ UNCHANGED <<image, credentials, qrCodeUrl, error, renders, corpus>>

\* lines 61-66: one of the awaited promises rejects; catch, then finally
AwaitRejected(f) ==
  /\ flows[f].pc \in AwaitSet
  /\ flows' = [flows EXCEPT ![f].pc = "fulfilled",
                            ![f].err = [rejected |-> flows[f].pc]]
  /\ error' = ProcessingMessage
  /\ scanning' = FALSE
  /\ UNCHANGED <<image, credentials, qrCodeUrl, renders, corpus>>

\* lines 72-73: QRCode.toDataURL resolves
QRCodeResolved(r) ==
  /\ r \in renders
  /\ qrCodeUrl' = toDataURL(r.wifiString)
  /\ renders' = renders \ {r}
  /\ UNCHANGED <<image, scanning, credentials, error, flows, corpus>>

\* lines 74-76: QRCode.toDataURL rejects, the error is only logged
QRCodeRejected(r) ==
  /\ r \in renders
  /\ renders' = renders \ {r}
  /\ UNCHANGED <<image, scanning, credentials, qrCodeUrl, error, flows, corpus>>

\* lines 88-93: resetApp, reachable through the "Try Again" and "Scan
\* Another" buttons (lines 148-209)
ResetApp ==
  /\ image # Null
  /\ ~scanning
  /\ error # Null \/ credentials # Null
  /\ image' = Null
  /\ credentials' = Null
  /\ qrCodeUrl' = Null
  /\ error' = Null
  /\ UNCHANGED <<scanning, flows, renders, corpus>>

Next ==
  \/ HandleCapture(MaxCaptures)
  \/ \E f \in 1..Len(flows) : ReaderLoad(f)
  \/ \E f \in 1..Len(flows) : CreateWorkerResolved(f)
  \/ \E f \in 1..Len(flows) : WorkerStepResolved(f)
  \/ \E f \in 1..Len(flows) : RecognizeResolved(f)
  \/ \E f \in 1..Len(flows) : TerminateResolved(f)
  \/ \E f \in 1..Len(flows) : AwaitRejected(f)
  \/ \E r \in renders : QRCodeResolved(r)
  \/ \E r \in renders : QRCodeRejected(r)
  \/ ResetApp

\* one submitted image, its text drawn from Texts
NextParse ==
  \/ HandleCapture(1)
  \/ \E f \in 1..Len(flows) : ReaderLoad(f)
  \/ \E f \in 1..Len(flows) : CreateWorkerResolved(f)
  \/ \E f \in 1..Len(flows) : WorkerStepResolved(f)
  \/ \E f \in 1..Len(flows) : RecognizeResolved(f)
  \/ \E f \in 1..Len(flows) : TerminateResolved(f)
  \/ \E f \in 1..Len(flows) : AwaitRejected(f)
  \/ \E r \in renders : QRCodeResolved(r)
  \/ \E r \in renders : QRCodeRejected(r)
  \/ ResetApp

Spec == Init /\ [][Next]_vars

SpecParse == InitParse /\ [][NextParse]_vars

\* ------------------------------------------------------- properties --
\* the step in which flow f runs lines 44-60
ParseStep(f) ==
  /\ flows[f].pc = "terminate"
  /\ flows'[f].pc = "fulfilled"
  /\ flows'[f].err = Null

\* the positions of t at which the pattern of label matches
MatchPositions(t, label) ==
  { i \in 1..Len(t) : MatchAt(t, label, i) # Null }

\* the match at the least matching position, Null when there is none
FirstMatch(t, label) ==
  IF MatchPositions(t, label) = {} THEN Null
  ELSE MatchAt(t, label,
         CHOOSE i \in MatchPositions(t, label) :
           \A j \in MatchPositions(t, label) : i <= j)

\* the match of the first of three labels whose pattern matches somewhere
ByPrecedence(t, l1, l2, l3) ==
  IF MatchPositions(t, l1) # {} THEN FirstMatch(t, l1)
  ELSE IF MatchPositions(t, l2) # {} THEN FirstMatch(t, l2)
  ELSE FirstMatch(t, l3)

\* s is a whole line of t that starts at position i
LineAt(t, s, i) ==
  /\ i >= 1
  /\ i + Len(s) - 1 <= Len(t)
  /\ SubSeq(t, i, i + Len(s) - 1) = s
  /\ i = 1 \/ t[i - 1] = NL
  /\ i + Len(s) - 1 = Len(t) \/ t[i + Len(s)] = NL

HasLine(t, s) == \E i \in 1..Len(t) : LineAt(t, s, i)

\* s is a whole line of t and the pattern of label matches nowhere before it
FirstMatchIsLine(t, label, s) ==
  \E i \in 1..Len(t) :
    /\ LineAt(t, s, i)
    /\ \A j \in 1..(i - 1) : MatchAt(t, label, j) = Null

Val_Home5G  == <<"H","o","m","e","-","5","G">>
Val_abc123  == <<"a","b","c","1","2","3">>
Val_letmein == <<"l","e","t","m","e","i","n">>

\* C1: whenever credentials are set, the ssid and the password are both
\* non-empty (trimmed) strings.
C1_CredentialsNonEmpty ==
  credentials # Null =>
    /\ credentials.ssid # <<>>
    /\ credentials.password # <<>>
    /\ Trim(credentials.ssid) = credentials.ssid

\* C2: the value captured for a label lies on the line of that label: no
\* match of a label pattern extends over a line break, so the empty line
\* "Password:" is skipped in favour of the next label.
C2_CaptureOnLabelLine ==
  \A f \in 1..Len(flows) :
    /\ flows[f].ssidMatch # Null =>
         \A k \in 1..Len(flows[f].ssidMatch.whole) :
           flows[f].ssidMatch.whole[k] # NL
    /\ flows[f].passwordMatch # Null =>
         \A k \in 1..Len(flows[f].passwordMatch.whole) :
           flows[f].passwordMatch.whole[k] # NL
    /\ (flows[f].pc = "fulfilled" /\ flows[f].err = Null
          /\ flows[f].data.text = JoinLines(<<Str_Pw_nothing, Str_Key_let>>))
         => /\ flows[f].passwordMatch # Null
            /\ Trim(flows[f].passwordMatch.capture) = Val_letmein

\* C3: in the step that parses a text, the ssid comes from the leftmost
\* match of the SSID pattern if that pattern matches anywhere, else of the
\* Network pattern, else of the WiFi pattern; the password likewise from
\* Password, then Pass, then Key; the credentials stored are the trimmed
\* captures of these two matches, and the not-found message is set when
\* one of them is missing.
C3_LabelPrecedence ==
  [][\A f \in 1..Len(flows) :
       ParseStep(f) =>
         LET t  == flows[f].data.text
             sm == ByPrecedence(t, LabelSSID, LabelNetwork, LabelWiFi)
             pm == ByPrecedence(t, LabelPassword, LabelPass, LabelKey)
         IN  IF sm # Null /\ pm # Null
               THEN credentials' = [ssid     |-> Trim(sm.capture),
                                    password |-> Trim(pm.capture)]
               ELSE error' = NotFoundMessage /\ credentials' = credentials]_vars

\* C3 witness: "Network: A" precedes "SSID: B" in the text and the ssid is B
C3_Witness ==
  \E f \in 1..Len(flows) :
    /\ flows[f].pc = "fulfilled"
    /\ flows[f].err = Null
    /\ flows[f].data.text = JoinLines(<<Str_Network_A, Str_SSID_B, Str_pass_x1>>)
    /\ credentials = [ssid |-> <<"B">>, password |-> <<"x", "1">>]

\* C4 as stated: every text with a line "SSID: Home-5G" and a line
\* "Password: abc123" parses to exactly these credentials.
C4_AnyTextWithBothLines ==
  [][\A f \in 1..Len(flows) :
       (/\ ParseStep(f)
        /\ HasLine(flows[f].data.text, Str_SSID_Home)
        /\ HasLine(flows[f].data.text, Str_Pw_abc))
       => credentials' = [ssid |-> Val_Home5G, password |-> Val_abc123]]_vars

\* C4 amended: every text in which the line "SSID: Home-5G" holds the
\* leftmost match of the SSID pattern and the line "Password: abc123" holds
\* the leftmost match of the Password pattern parses to exactly these
\* credentials, whatever other lines surround them.
C4_FirstMatchingLines ==
  [][\A f \in 1..Len(flows) :
       (/\ ParseStep(f)
        /\ FirstMatchIsLine(flows[f].data.text, LabelSSID, Str_SSID_Home)
        /\ FirstMatchIsLine(flows[f].data.text, LabelPassword, Str_Pw_abc))
       => credentials' = [ssid |-> Val_Home5G, password |-> Val_abc123]]_vars

\* C4 witness: the two lines follow another line that has labels of lower
\* precedence, and the credentials are those of the two lines
C4_Witness ==
  \E f \in 1..Len(flows) :
    /\ flows[f].pc = "fulfilled"
    /\ flows[f].err = Null
    /\ flows[f].data.text = JoinLines(<<Str_Key_let, Str_SSID_Home, Str_Pw_abc>>)
    /\ credentials = [ssid |-> Val_Home5G, password |-> Val_abc123]

\* C5: every string handed to QRCode.toDataURL is "WIFI:S:" + ssid +
\* ";T:WPA;P:" + password + ";;" for the ssid and password stored as
\* credentials in the same step, verbatim and with the type WPA.
C5_PayloadTemplate ==
  [][\A r \in renders' \ renders :
       /\ credentials' # Null
       /\ r.wifiString =
            <<"W","I","F","I",":","S",":">> \o credentials'.ssid
              \o <<";","T",":","W","P","A",";","P",":">>
              \o credentials'.password \o <<";",";">>]_vars

\* C5 witness: the password "Key: letmein" holds a colon and a space, and
\* the render of "WIFI:S:B;T:WPA;P:Key: letmein;;" is pending while the
\* credentials B / "Key: letmein" are stored
C5_Witness ==
  /\ credentials = [ssid |-> <<"B">>,
                    password |-> <<"K","e","y",":"," ","l","e","t","m","e","i","n">>]
  /\ \E r \in renders :
       r.wifiString =
         <<"W","I","F","I",":","S",":","B",";","T",":","W","P","A",";",
           "P",":","K","e","y",":"," ","l","e","t","m","e","i","n",";",";">>

\* C6: a step in which one of the six awaited promises of processImage
\* rejects ends the flow with the processing-error message set, the
\* credentials untouched, no QR render requested, scanning false, and the
\* promise of processImage fulfilled rather than rejected.
C6_ExtractorErrorMapped ==
  [][\A f \in 1..Len(flows) :
       (flows[f].pc \in AwaitSet /\ flows'[f].err # Null) =>
         /\ error' = ProcessingMessage
         /\ credentials' = credentials
         /\ renders' = renders
         /\ scanning' = FALSE
         /\ flows'[f].pc = "fulfilled"]_vars

\* C6 witness: a flow whose recognize() rejected has finished
C6_Witness ==
  \E f \in 1..Len(flows) :
    /\ flows[f].err = [rejected |-> "recognize"]
    /\ flows[f].pc = "fulfilled"
    /\ error = ProcessingMessage
    /\ ~scanning

\* C7: the UI state is always one of Idle, Scanning, Succeeded, Failed;
\* credentials and error are never both set; scanning is true while a
\* processImage flow is in flight.
C7_FourStates ==
  /\ \/ image = Null /\ ~scanning /\ credentials = Null /\ error = Null
     \/ scanning /\ credentials = Null /\ error = Null
     \/ credentials # Null /\ error = Null /\ ~scanning
     \/ error # Null /\ credentials = Null /\ ~scanning
  /\ ~(credentials # Null /\ error # Null)
  /\ (\E f \in 1..Len(flows) : flows[f].pc \in AwaitSet) => scanning

\* C8: at most one flow (FileReader read + processImage) is in flight.
C8_AtMostOneFlow == Cardinality(InFlight) <= 1

\* C9: a non-null qrCodeUrl is the rendering of the payload of the
\* credentials currently stored.
C9_QrMatchesCredentials ==
  qrCodeUrl # Null =>
    /\ credentials # Null
    /\ qrCodeUrl = toDataURL(wifiString(credentials.ssid, credentials.password))

\* C10: no flow finishes with its worker created and not terminated.
C10_WorkerTerminated ==
  \A f \in 1..Len(flows) :
    flows[f].pc = "fulfilled" => flows[f].worker # "alive"

====
